---- MODULE Spec2Model ----
(***************************************************************************)
(* Model of thumbnail-buddy's generation orchestrator                      *)
(* (src/image_generator.py, class ImageGenerator).                         *)
(*                                                                         *)
(* One generate() call is a record `call`: the arguments, the locals of    *)
(* the provider method that is running (validated reference, enhanced      *)
(* prompt, loop index, poll attempt, last_error), what the call has done   *)
(* to the outside (requests issued, sleeps, writes to output_path) and how *)
(* it ended.  Every network request is one step: the provider's answer is  *)
(* chosen nondeterministically among the shapes the code distinguishes.    *)
(*                                                                         *)
(* `twin` is a second generate() call with the same service, prompt and    *)
(* output path but no reference image.  It runs in lockstep with `call`    *)
(* and is given the provider answers `call` gets (the same provider        *)
(* behaviour), so two runs can be compared state by state.                 *)
(*                                                                         *)
(* The thumbnail finder (src/thumbnail_finder.py, class ThumbnailFinder)   *)
(* has its own specification, FinderSpec, over `tree`, `disk` and          *)
(* `finder`; these stay as they are in Spec, and `call` and `twin` stay as *)
(* they are in FinderSpec.                                                 *)
(***************************************************************************)
EXTENDS Integers, Sequences, FiniteSets, TLC

VARIABLES call, twin, tree, disk, finder, web

vars == <<call, twin, tree, disk, finder, web>>

-----------------------------------------------------------------------------
(* Bounds of the model: lengths of the caller prompts that are tried and   *)
(* of the description the vision model returns.                            *)
ShortPromptLen == 20
LongPromptLen == 4100
DescLen == 600

(* Program constants. *)
max_attempts == 60
PollSleep == 2
DallePromptLimit == 4000

Min(a, b) == IF a < b THEN a ELSE b

-----------------------------------------------------------------------------
(* Inputs *)

Services == {"freepik", "dalle", "gemini", "replicate", "fal"}

(* The names a caller can pass to ImageGenerator(service=...): the five    *)
(* services, one of them in upper case, and a name the class does not know. *)
ServiceNames == Services \cup {"DALLE", "midjourney"}

(* service.lower() *)
Lower(name) == IF name = "DALLE" THEN "dalle" ELSE name

(* What os.getenv returns for the credential of the selected service:      *)
(* None, the empty string, or a key.                                       *)
Credentials == {"unset", "empty", "key"}

(* not self.api_key *)
NoCredential(cred) == cred \in {"unset", "empty"}

(* The values a caller can pass as reference_image_path:                   *)
(*   None, "" , "   ", a truthy non-string (a Path object),                *)
(*   a path that does not exist, an existing readable image,               *)
(*   an existing path that cannot be opened (a directory, no permission).  *)
RefNone == "None"
RefEmpty == "empty_str"
RefBlank == "blank_str"
RefObject == "non_str"
RefMissing == "missing_path"
RefFile == "image_file"
RefBroken == "unreadable_path"

RefValues == {RefNone, RefEmpty, RefBlank, RefObject, RefMissing, RefFile, RefBroken}

Truthy(ref) == ref \notin {RefNone, RefEmpty}
IsStr(ref) == ref \in {RefEmpty, RefBlank, RefMissing, RefFile, RefBroken}
StripEmpty(ref) == ref \in {RefEmpty, RefBlank}
PathExists(ref) == ref \in {RefFile, RefBroken}
CanOpen(ref) == ref = RefFile

(* A text is the caller's prompt (base) inside the templates that were     *)
(* applied to it, innermost first; len is its length in characters, cut    *)
(* says that a slice dropped its tail.                                     *)
CallerPrompt(id, n) == [base |-> id, layers |-> <<>>, len |-> n, cut |-> FALSE]

(* The empty prompt: main.py passes analysis.get("generation_prompt", ""). *)
EmptyPrompt == CallerPrompt("", 0)

Prompts == {EmptyPrompt, CallerPrompt("A", ShortPromptLen),
            CallerPrompt("B", LongPromptLen)}

NoText == [base |-> "", layers |-> <<>>, len |-> 0, cut |-> FALSE]

OutputPath == "generated/out.png"

-----------------------------------------------------------------------------
(* Prompt templates (the f-strings of the provider methods) *)

TplLen(tpl) ==
    CASE tpl = "gemini" -> 326
      [] tpl = "gemini_edit" -> 20
      [] tpl = "freepik_text" -> 207
      [] tpl = "freepik_ref" -> 227
      [] tpl = "replicate" -> 142
      [] tpl = "dalle_plain" -> 101
      [] tpl = "dalle_recreate" -> 708 + DescLen
      [] tpl = "fal" -> 146

(* Only the gemini template ends in "Avoid: podcast microphones,           *)
(* headphones, podcast studio setup".                                      *)
TplAvoids(tpl) == tpl = "gemini"

Wrap(tpl, text) ==
    [text EXCEPT !.layers = Append(@, tpl), !.len = @ + TplLen(tpl)]

(* text[:n] *)
Slice(text, n) ==
    [text EXCEPT !.len = Min(@, n), !.cut = @ \/ text.len > n]

TextAvoids(text) == \E i \in 1..Len(text.layers) : TplAvoids(text.layers[i])

-----------------------------------------------------------------------------
(* Requests and errors *)

Cand(depth, stage, idx) == [depth |-> depth, stage |-> stage, idx |-> idx]

NoCand == Cand(0, "none", 0)

(* A generation request: the candidate it goes to, whether it carries the  *)
(* reference image, the prompt, and whether the payload has a              *)
(* negative_prompt naming podcast microphone and headphones.               *)
GenRequest(cand, withRef, prompt, neg) ==
    [cand |-> cand, ref |-> withRef, prompt |-> prompt, neg_avoid |-> neg]

Err(kind, cause, cand) == [kind |-> kind, cause |-> cause, cand |-> cand]

NoError == Err("none", "none", NoCand)

(* Answers that are network-level failures of a single request. *)
NetErrors == {"timeout", "conn_error"}

-----------------------------------------------------------------------------
(* The state of one generate() call *)

NewCall(name, cred, prompt, ref) ==
    [ service_arg |-> name,               \* argument of ImageGenerator()
      credential |-> cred,                \* the environment's value of the key
      service |-> "unset",                \* self.service
      api_key |-> "unset",                \* self.api_key
      prompt |-> prompt,                  \* argument of the running method
      caller_prompt |-> prompt,           \* argument of generate()
      reference_arg |-> ref,              \* argument of generate()
      reference_image_path |-> ref,       \* local of the running method
      output_path |-> OutputPath,
      pc |-> "construct",
      depth |-> 0,                        \* nesting of generate_gemini
      validated |-> FALSE,
      enhanced_prompt |-> NoText,
      idx |-> 0,                          \* position in the candidate loop
      attempt |-> 0,                      \* position in the polling loop
      fallback |-> FALSE,                 \* gemini SDK: inside the inner except
      vision |-> "none",                  \* dalle: how the description step went
      last_error |-> NoError,
      gen_requests |-> <<>>,              \* generation requests, in order
      tried |-> <<>>,                     \* candidates whose loop body ran
      nreq2 |-> 0,                        \* network requests issued, modulo 2
      polls |-> 0,                        \* status requests of the current job
      last_req |-> "none",
      last_cand |-> NoCand,
      last_resp |-> "none",
      sleeps |-> 0,                       \* time.sleep calls of the current job
      slept |-> {},                       \* durations passed to time.sleep
      writes |-> 0,                       \* writes to output_path
      file |-> "absent",
      result |-> "none",
      error |-> NoError ]

(* c after issuing a network request of the given kind to candidate cand,  *)
(* answered by r.                                                          *)
Sent(c, kind, cand, r) ==
    [c EXCEPT !.nreq2 = (@ + 1) % 2, !.last_req = kind, !.last_cand = cand,
              !.last_resp = r]

SentGen(c, cand, withRef, prompt, neg, r) ==
    [Sent(c, "generate", cand, r) EXCEPT
        !.gen_requests = Append(@, GenRequest(cand, withRef, prompt, neg))]

(* with open(output_path, "wb") as f: f.write(...); return output_path *)
WriteAndReturn(c, bytes) ==
    [c EXCEPT !.writes = @ + 1, !.file = bytes, !.result = c.output_path,
              !.pc = "returned"]

Raise(c, e) == [c EXCEPT !.error = e, !.pc = "raised"]

(* time.sleep(2) *)
Sleep(c) == [c EXCEPT !.sleeps = @ + 1, !.slept = @ \cup {PollSleep}]

-----------------------------------------------------------------------------
(* ImageGenerator.__init__: the selected service needs its credential. *)
KeyName(service) ==
    CASE service = "freepik" -> "FREEPIK_API_KEY"
      [] service = "dalle" -> "OPENAI_API_KEY"
      [] service = "gemini" -> "GOOGLE_API_KEY"
      [] service = "replicate" -> "REPLICATE_API_TOKEN"
      [] service = "fal" -> "FAL_KEY"

(* __init__ accepting any service name. *)
Construct_AnyName(c, r) ==
    LET c1 == [c EXCEPT !.service = Lower(c.service_arg)]
    IN  IF c1.service \in Services /\ NoCredential(c.credential)
        THEN [c1 EXCEPT !.pc = "config_error",
                        !.error = Err("config_error", KeyName(c1.service), NoCand)]
        ELSE [c1 EXCEPT !.api_key = c.credential, !.pc = "generate"]

Construct(c, r) ==
    LET c1 == [c EXCEPT !.service = Lower(c.service_arg)]
    IN  IF c1.service \in Services
        THEN IF NoCredential(c.credential)
             THEN [c1 EXCEPT !.pc = "config_error",
                             !.error = Err("config_error", KeyName(c1.service), NoCand)]
             ELSE [c1 EXCEPT !.api_key = c.credential, !.pc = "generate"]
        ELSE [c1 EXCEPT !.pc = "config_error",
                        !.error = Err("config_error", "Unsupported service", NoCand)]

(* generate(): dispatch on self.service *)

ProviderEntry(service) ==
    CASE service = "freepik" -> "freepik_validate"
      [] service = "dalle" -> "dalle_validate"
      [] service = "gemini" -> "gemini_validate"
      [] service = "replicate" -> "replicate_validate"
      [] service = "fal" -> "fal_validate"

Dispatch(c, r) ==
    IF c.service \in Services
    THEN [c EXCEPT !.pc = ProviderEntry(c.service)]
    ELSE Raise(c, Err("unsupported_service", "Unsupported service", NoCand))

(* ValidateReference without the os.path.exists branch. *)
ValidateReference_NoExistsCheck(ref) ==
    IF Truthy(ref)
    THEN IF ~IsStr(ref) \/ StripEmpty(ref) THEN RefNone ELSE ref
    ELSE ref

(* The block every provider method starts with. *)
ValidateReference(ref) ==
    IF Truthy(ref)
    THEN IF ~IsStr(ref) \/ StripEmpty(ref) THEN RefNone
         ELSE IF ~PathExists(ref) THEN RefNone
         ELSE ref
    ELSE ref

-----------------------------------------------------------------------------
(* generate_gemini *)

models_to_try == <<"gemini-2.5-flash-image", "gemini-2.5-flash-image-preview",
                   "gemini-2.0-flash-preview-image-generation">>

endpoints_to_try == <<"gemini-2.5-flash-image", "gemini-2.5-flash-image-preview",
                      "gemini-2.0-flash-preview-image-generation", "gemini-exp-1206">>

(* Answers of model.generate_content: a response with .image, with an      *)
(* inline_data part, with parts that hold no inline data (a link to the    *)
(* image, text), with no parts, or an exception.                           *)
SdkResponses == {"image", "inline", "url", "empty", "api_error", "timeout", "conn_error"}

SdkRaises(r) == r \in {"api_error", "timeout", "conn_error"}

(* Answers of requests.post to the REST endpoint. *)
RestResponses == {"200_inline", "200_badb64", "200_url", "200_empty", "404",
                  "403_key", "403_imagen", "403_other", "500", "timeout", "conn_error"}

(* Validation and the enhanced prompt (lines 66-98). *)
GeminiValidate(c, r) ==
    [c EXCEPT !.reference_image_path = ValidateReference(@),
              !.validated = TRUE,
              !.enhanced_prompt = Wrap("gemini", c.prompt),
              !.idx = 1,
              !.pc = "gemini_sdk"]

(* Leaving the body of the SDK loop without a return. *)
GeminiSdkNext(c) ==
    IF c.idx < Len(models_to_try)
    THEN [c EXCEPT !.idx = @ + 1, !.fallback = FALSE, !.pc = "gemini_sdk"]
    ELSE [c EXCEPT !.idx = 1, !.fallback = FALSE, !.last_error = NoError,
                   !.pc = "gemini_rest"]

(* Lines 144-173: what the SDK loop does with the answer. *)
GeminiSdkResult(c, r) ==
    IF r \in {"image", "inline"} THEN WriteAndReturn(c, "inline_bytes")
    ELSE GeminiSdkNext(c)

(* Line 116 and the checks inside the branch. *)
GeminiSdkUsesRef(c) ==
    /\ Truthy(c.reference_image_path)
    /\ IsStr(c.reference_image_path)
    /\ ~StripEmpty(c.reference_image_path)
    /\ PathExists(c.reference_image_path)
    /\ CanOpen(c.reference_image_path)

(* One pass of the SDK loop body up to its first generate_content call    *)
(* (lines 107-142).  The inner try covers PILImage.open and the call that  *)
(* carries the reference: when that call raises, the inner except issues   *)
(* a second, text-only call to the same model.                             *)
GeminiSdkTry(c, r) ==
    LET cand == Cand(c.depth, "sdk", c.idx)
        withRef == GeminiSdkUsesRef(c)
        text == IF withRef THEN Wrap("gemini_edit", c.enhanced_prompt)
                ELSE c.enhanced_prompt
        c1 == SentGen([c EXCEPT !.tried = Append(@, cand)], cand, withRef, text, FALSE, r)
    IN  IF withRef /\ SdkRaises(r)
        THEN [c1 EXCEPT !.fallback = TRUE, !.pc = "gemini_sdk_fallback"]
        ELSE GeminiSdkResult(c1, r)

(* Lines 135-138: the text-only call of the inner except. *)
GeminiSdkFallback(c, r) ==
    LET cand == Cand(c.depth, "sdk", c.idx)
    IN  GeminiSdkResult(SentGen(c, cand, FALSE, c.enhanced_prompt, FALSE, r), r)

(* GeminiExhausted without the text-only retry. *)
GeminiExhausted_NoRetry(c) ==
    Raise(c, Err("gemini_failed", c.last_error.cause, c.last_error.cand))

(* GeminiExhausted calling generate_gemini again with the reference kept. *)
GeminiExhausted_KeepReference(c) ==
    IF Truthy(c.reference_image_path)
    THEN [c EXCEPT !.prompt = c.enhanced_prompt,
                   !.depth = @ + 1,
                   !.validated = FALSE,
                   !.enhanced_prompt = NoText,
                   !.idx = 0,
                   !.last_error = NoError,
                   !.pc = "gemini_validate"]
    ELSE Raise(c, Err("gemini_failed", c.last_error.cause, c.last_error.cand))

(* Lines 338-362: after the REST loop. *)
GeminiExhausted(c) ==
    IF Truthy(c.reference_image_path)
    THEN [c EXCEPT !.prompt = c.enhanced_prompt,
                   !.reference_image_path = RefNone,
                   !.depth = @ + 1,
                   !.validated = FALSE,
                   !.enhanced_prompt = NoText,
                   !.idx = 0,
                   !.last_error = NoError,
                   !.pc = "gemini_validate"]
    ELSE Raise(c, Err("gemini_failed", c.last_error.cause, c.last_error.cand))

(* GeminiRestNext asking a timed-out endpoint once more. *)
GeminiRestNext_RetryTimedOut(c, cause) ==
    LET c1 == [c EXCEPT !.last_error = Err("last_error", cause, Cand(c.depth, "rest", c.idx))]
    IN  IF cause = "timed out" /\ ~c.fallback
        THEN [c1 EXCEPT !.fallback = TRUE]
        ELSE IF c.idx < Len(endpoints_to_try)
        THEN [c1 EXCEPT !.idx = @ + 1, !.fallback = FALSE]
        ELSE GeminiExhausted(c1)

(* `continue` in the REST loop, with last_error set (lines 294-336). *)
GeminiRestNext(c, cause) ==
    LET c1 == [c EXCEPT !.last_error = Err("last_error", cause, Cand(c.depth, "rest", c.idx))]
    IN  IF c.idx < Len(endpoints_to_try)
        THEN [c1 EXCEPT !.idx = @ + 1]
        ELSE GeminiExhausted(c1)

(* Lines 210-246. *)
GeminiRestUsesRef(c) ==
    /\ Truthy(c.reference_image_path)
    /\ IsStr(c.reference_image_path)
    /\ ~StripEmpty(c.reference_image_path)
    /\ PathExists(c.reference_image_path)
    /\ CanOpen(c.reference_image_path)

GeminiRestCause(r) ==
    CASE r = "200_badb64" -> "Failed to decode image"
      [] r \in {"200_url", "200_empty"} -> "No image data in response"
      [] r = "404" -> "not available"
      [] r = "403_key" -> "GOOGLE_API_KEY is invalid"
      [] r = "403_imagen" -> "Imagen API not enabled"
      [] r = "403_other" -> "Permission denied"
      [] r = "500" -> "failed"
      [] r = "timeout" -> "timed out"
      [] r = "conn_error" -> "exception"

(* One pass of the REST loop body (lines 200-336). *)
GeminiRestTry(c, r) ==
    LET cand == Cand(c.depth, "rest", c.idx)
        withRef == GeminiRestUsesRef(c)
        text == IF withRef THEN Wrap("gemini_edit", c.enhanced_prompt)
                ELSE c.enhanced_prompt
        c1 == SentGen([c EXCEPT !.tried = Append(@, cand)], cand, withRef, text, FALSE, r)
    IN  IF r = "200_inline" THEN WriteAndReturn(c1, "inline_bytes")
        ELSE GeminiRestNext(c1, GeminiRestCause(r))

(* Answers of requests.get(url) that fetches the generated image. *)
DownloadResponses == {"ok", "http_error", "timeout", "conn_error"}

-----------------------------------------------------------------------------
(* generate_freepik, _freepik_with_reference, _extract_freepik_image,      *)
(* _poll_freepik_job                                                       *)

freepik_endpoints == <<"reimagine", "image-variations">>

FreepikRefResponses == {"200_url", "200_base64", "200_base64_empty", "200_badb64",
                        "200_noimage",
                        "404", "501", "500", "timeout", "conn_error"}

FreepikTextResponses == {"base64", "base64_empty", "badb64", "url", "job", "noimage",
                         "http_error", "timeout", "conn_error"}

FreepikPollResponses == {"pending", "completed_url", "completed_base64",
                         "completed_base64_empty",
                         "completed_badb64", "completed_noimage", "failed",
                         "http_error", "timeout", "conn_error"}

(* Lines 391-399: whatever _freepik_with_reference raised is re-raised as  *)
(* "Freepik cannot process reference images: ...", with no text-only run.  *)
FreepikRefRaise(c, cause) == Raise(c, Err("freepik_reference_failed", cause, NoCand))

(* Lines 368-410 and 537-549: validation, then the choice of the path. *)
FreepikValidate(c, r) ==
    LET ref == ValidateReference(c.reference_image_path)
        c1 == [c EXCEPT !.reference_image_path = ref, !.validated = TRUE]
    IN  IF Truthy(ref)
        THEN IF CanOpen(ref)
             THEN [c1 EXCEPT !.enhanced_prompt = Wrap("freepik_ref", c.prompt),
                             !.idx = 1, !.pc = "freepik_ref"]
             ELSE FreepikRefRaise(c1, "cannot open reference")
        ELSE [c1 EXCEPT !.enhanced_prompt = Wrap("freepik_text", c.prompt),
                        !.idx = 1, !.pc = "freepik_text"]

(* `continue` in the loop of _freepik_with_reference, line 610 after it. *)
FreepikRefNext(c) ==
    IF c.idx < Len(freepik_endpoints)
    THEN [c EXCEPT !.idx = @ + 1, !.pc = "freepik_ref"]
    ELSE FreepikRefRaise(c, "All Freepik reference-based endpoints failed")

(* One pass of the loop of _freepik_with_reference (lines 573-607), with   *)
(* _extract_freepik_image up to its download.                              *)
FreepikRefTry(c, r) ==
    LET cand == Cand(c.depth, "freepik_ref", c.idx)
        c1 == SentGen([c EXCEPT !.tried = Append(@, cand)], cand, TRUE,
                      c.enhanced_prompt, FALSE, r)
    IN  CASE r = "200_base64" -> WriteAndReturn(c1, "inline_bytes")
          [] r = "200_base64_empty" -> WriteAndReturn(c1, "empty_bytes")
          [] r = "200_url" -> [c1 EXCEPT !.pc = "freepik_ref_download"]
          [] OTHER -> FreepikRefNext(c1)

(* _extract_freepik_image, lines 719-725, called inside the loop's try. *)
FreepikRefFetch(c, r) ==
    LET c1 == Sent(c, "download", Cand(c.depth, "freepik_ref", c.idx), r)
    IN  IF r = "ok" THEN WriteAndReturn(c1, "downloaded_bytes")
        ELSE FreepikRefNext(c1)

(* FreepikTextTry without the base64 branch. *)
FreepikTextTry_UrlOnly(c, r) ==
    LET cand == Cand(c.depth, "freepik_text", c.idx)
        c1 == SentGen([c EXCEPT !.tried = Append(@, cand)], cand, FALSE,
                      c.enhanced_prompt, TRUE, r)
    IN  CASE r = "url" -> [c1 EXCEPT !.pc = "freepik_text_download"]
          [] r = "job" -> [c1 EXCEPT !.attempt = 0, !.polls = 0, !.sleeps = 0,
                                     !.pc = "freepik_poll"]
          [] r \in {"noimage", "base64", "base64_empty", "badb64"} ->
                Raise(c1, Err("unexpected_format", "Unexpected API response format", cand))
          [] OTHER -> Raise(c1, Err("request_error", r, cand))

(* Lines 431-479: the text-to-image request. *)
FreepikTextTry(c, r) ==
    LET cand == Cand(c.depth, "freepik_text", c.idx)
        c1 == SentGen([c EXCEPT !.tried = Append(@, cand)], cand, FALSE,
                      c.enhanced_prompt, TRUE, r)
    IN  CASE r = "base64" -> WriteAndReturn(c1, "inline_bytes")
          [] r = "base64_empty" -> WriteAndReturn(c1, "empty_bytes")
          [] r = "badb64" -> Raise(c1, Err("decode_error", "base64", cand))
          [] r = "url" -> [c1 EXCEPT !.pc = "freepik_text_download"]
          [] r = "job" -> [c1 EXCEPT !.attempt = 0, !.polls = 0, !.sleeps = 0,
                                     !.pc = "freepik_poll"]
          [] r = "noimage" -> Raise(c1, Err("unexpected_format", "Unexpected API response format", cand))
          [] OTHER -> Raise(c1, Err("request_error", r, cand))

(* Lines 456-461. *)
FreepikTextFetch(c, r) ==
    LET cand == Cand(c.depth, "freepik_text", c.idx)
        c1 == Sent(c, "download", cand, r)
    IN  IF r = "ok" THEN WriteAndReturn(c1, "downloaded_bytes")
        ELSE Raise(c1, Err("request_error", r, cand))

(* Lines 528-533: the except of the polling loop, and the raise after it.  *)
FreepikPollRetry(c, r) ==
    IF c.attempt = max_attempts - 1
    THEN Raise(c, Err("request_error", r, Cand(c.depth, "freepik_text", c.idx)))
    ELSE [Sleep(c) EXCEPT !.attempt = @ + 1, !.pc = "freepik_poll"]

(* FreepikPollWait with the loop bound off by one. *)
FreepikPollWait_OffByOne(c) ==
    IF c.attempt = max_attempts
    THEN Raise(Sleep(c), Err("timeout", "Generation timed out",
                             Cand(c.depth, "freepik_text", c.idx)))
    ELSE [Sleep(c) EXCEPT !.attempt = @ + 1, !.pc = "freepik_poll"]

(* Lines 523-526 and 533: no terminal status in this attempt. *)
FreepikPollWait(c) ==
    IF c.attempt = max_attempts - 1
    THEN Raise(Sleep(c), Err("timeout", "Generation timed out",
                             Cand(c.depth, "freepik_text", c.idx)))
    ELSE [Sleep(c) EXCEPT !.attempt = @ + 1, !.pc = "freepik_poll"]

(* One pass of the loop of _poll_freepik_job (lines 488-531). *)
FreepikPollTry(c, r) ==
    LET cand == Cand(c.depth, "freepik_text", c.idx)
        c1 == [Sent(c, "poll", cand, r) EXCEPT !.polls = @ + 1]
    IN  CASE r = "pending" -> FreepikPollWait(c1)
          [] r = "completed_url" -> [c1 EXCEPT !.pc = "freepik_poll_download"]
          [] r = "completed_base64" -> WriteAndReturn(c1, "inline_bytes")
          [] r = "completed_base64_empty" -> WriteAndReturn(c1, "empty_bytes")
          [] r = "completed_badb64" -> Raise(c1, Err("decode_error", "base64", cand))
          [] r = "completed_noimage" ->
                Raise(c1, Err("malformed", "Image URL not found in completed job", cand))
          [] r = "failed" -> Raise(c1, Err("provider_failed", "Generation failed", cand))
          [] OTHER -> FreepikPollRetry(c1, r)

(* FreepikPollFetch writing the body before raise_for_status. *)
FreepikPollFetch_WriteBeforeCheck(c, r) ==
    LET c1 == Sent(c, "download", Cand(c.depth, "freepik_text", c.idx), r)
    IN  IF r = "ok" THEN WriteAndReturn(c1, "downloaded_bytes")
        ELSE FreepikPollRetry([c1 EXCEPT !.writes = @ + 1, !.file = "error_body"], r)

(* Lines 501-507, inside the loop's try. *)
FreepikPollFetch(c, r) ==
    LET c1 == Sent(c, "download", Cand(c.depth, "freepik_text", c.idx), r)
    IN  IF r = "ok" THEN WriteAndReturn(c1, "downloaded_bytes")
        ELSE FreepikPollRetry(c1, r)

-----------------------------------------------------------------------------
(* generate_replicate *)

replicate_models == <<"black-forest-labs/flux-dev", "stability-ai/sdxl">>

ReplicateSubmitResponses == {"created", "http_error", "timeout", "conn_error"}

ReplicatePollResponses == {"processing", "succeeded_url", "succeeded_inline",
                           "succeeded_none", "failed", "http_error", "timeout",
                           "conn_error"}

(* Lines 742-766: validation, prompt, reading the reference (outside any   *)
(* try).                                                                   *)
ReplicateValidate(c, r) ==
    LET ref == ValidateReference(c.reference_image_path)
        c1 == [c EXCEPT !.reference_image_path = ref, !.validated = TRUE,
                        !.enhanced_prompt = Wrap("replicate", c.prompt)]
    IN  IF Truthy(ref) /\ ~CanOpen(ref)
        THEN Raise(c1, Err("io_error", "cannot open reference", NoCand))
        ELSE [c1 EXCEPT !.idx = 1, !.pc = "replicate_submit"]

(* Lines 858-868: the except of the model loop. *)
ReplicateFail(c, e) ==
    LET c1 == [c EXCEPT !.last_error = e]
    IN  IF c.idx = Len(replicate_models)
        THEN Raise(c1, e)
        ELSE [c1 EXCEPT !.idx = @ + 1, !.pc = "replicate_submit"]

(* Lines 801-817: create the prediction. *)
ReplicateSubmitTry(c, r) ==
    LET cand == Cand(c.depth, "replicate", c.idx)
        c1 == SentGen([c EXCEPT !.tried = Append(@, cand)], cand,
                      Truthy(c.reference_image_path), c.enhanced_prompt, FALSE, r)
    IN  IF r = "created"
        THEN [c1 EXCEPT !.attempt = 0, !.polls = 0, !.sleeps = 0, !.pc = "replicate_poll"]
        ELSE ReplicateFail(c1, Err("request_error", r, cand))

(* One pass of the polling loop (lines 821-856). *)
ReplicatePollTry(c, r) ==
    LET cand == Cand(c.depth, "replicate", c.idx)
        c1 == [Sent(c, "poll", cand, r) EXCEPT !.polls = @ + 1]
    IN  CASE r = "processing" ->
                IF c.attempt = max_attempts - 1
                THEN ReplicateFail(Sleep(c1), Err("timeout", "Generation timed out", cand))
                ELSE [Sleep(c1) EXCEPT !.attempt = @ + 1]
          [] r = "succeeded_url" -> [c1 EXCEPT !.pc = "replicate_download"]
          [] r = "succeeded_inline" -> ReplicateFail(c1, Err("request_error", "invalid url", cand))
          [] r = "succeeded_none" ->
                ReplicateFail(c1, Err("unexpected_format", "Unexpected output format", cand))
          [] r = "failed" -> ReplicateFail(c1, Err("provider_failed", "Generation failed", cand))
          [] OTHER -> ReplicateFail(c1, Err("request_error", r, cand))

(* Lines 838-846. *)
ReplicateFetch(c, r) ==
    LET cand == Cand(c.depth, "replicate", c.idx)
        c1 == Sent(c, "download", cand, r)
    IN  IF r = "ok" THEN WriteAndReturn(c1, "downloaded_bytes")
        ELSE ReplicateFail(c1, Err("request_error", r, cand))

-----------------------------------------------------------------------------
(* generate_dalle *)

VisionResponses == {"described", "api_error", "timeout", "conn_error"}

DalleResponses == {"url", "b64_json", "api_error", "timeout", "conn_error"}

(* Lines 960 and 962. *)
DallePlain(c) ==
    [c EXCEPT !.enhanced_prompt = Wrap("dalle_plain", c.prompt), !.idx = 1,
              !.pc = "dalle_generate"]

(* Lines 882-900 and 957-962: validation; reading the reference is inside  *)
(* the try of the vision step.                                             *)
DalleValidate(c, r) ==
    LET ref == ValidateReference(c.reference_image_path)
        c1 == [c EXCEPT !.reference_image_path = ref, !.validated = TRUE]
    IN  IF Truthy(ref)
        THEN IF CanOpen(ref) THEN [c1 EXCEPT !.idx = 1, !.pc = "dalle_vision"]
             ELSE DallePlain([c1 EXCEPT !.vision = "failed"])
        ELSE DallePlain(c1)

(* DalleVisionTry letting the error of the description step escape. *)
DalleVisionTry_Abort(c, r) ==
    LET c1 == Sent(c, "vision", Cand(c.depth, "dalle_vision", 1), r)
    IN  IF r = "described"
        THEN [c1 EXCEPT !.vision = "described",
                        !.enhanced_prompt = Wrap("dalle_recreate", c.prompt),
                        !.pc = "dalle_generate"]
        ELSE Raise([c1 EXCEPT !.vision = "failed"],
                   Err("api_error", r, Cand(c.depth, "dalle_vision", 1)))

(* Lines 903-960: the GPT-4o description of the reference. *)
DalleVisionTry(c, r) ==
    LET c1 == Sent(c, "vision", Cand(c.depth, "dalle_vision", 1), r)
    IN  IF r = "described"
        THEN [c1 EXCEPT !.vision = "described",
                        !.enhanced_prompt = Wrap("dalle_recreate", c.prompt),
                        !.pc = "dalle_generate"]
        ELSE DallePlain([c1 EXCEPT !.vision = "failed"])

(* Lines 967-976 and 988-990. *)
DalleGenerateTry(c, r) ==
    LET cand == Cand(c.depth, "dalle", 1)
        c1 == SentGen([c EXCEPT !.tried = Append(@, cand)], cand, FALSE,
                      Slice(c.enhanced_prompt, DallePromptLimit), FALSE, r)
    IN  CASE r = "url" -> [c1 EXCEPT !.pc = "dalle_download"]
          [] r = "b64_json" -> Raise(c1, Err("request_error", "invalid url", cand))
          [] OTHER -> Raise(c1, Err("api_error", r, cand))

(* Lines 978-990. *)
DalleFetch(c, r) ==
    LET cand == Cand(c.depth, "dalle", 1)
        c1 == Sent(c, "download", cand, r)
    IN  IF r = "ok" THEN WriteAndReturn(c1, "downloaded_bytes")
        ELSE Raise(c1, Err("request_error", r, cand))

-----------------------------------------------------------------------------
(* generate_fal *)

(* Whether `import fal_client` succeeds. *)
FalImports == {"installed", "import_error"}

FalResponses == {"images_url", "images_inline", "no_images", "api_error",
                 "timeout", "conn_error"}

(* FalValidate without the validation block. *)
FalValidate_NoValidation(c, r) ==
    LET ref == c.reference_image_path
        c1 == [c EXCEPT !.validated = TRUE,
                        !.enhanced_prompt = Wrap("fal", c.prompt)]
    IN  IF r = "import_error"
        THEN Raise(c1, Err("configuration", "fal-client not installed", NoCand))
        ELSE IF Truthy(ref) /\ ~CanOpen(ref)
        THEN Raise(c1, Err("io_error", "cannot open reference", NoCand))
        ELSE [c1 EXCEPT !.idx = 1, !.pc = "fal_subscribe"]

(* Lines 1001-1044: validation, prompt, import, reading the reference. *)
FalValidate(c, r) ==
    LET ref == ValidateReference(c.reference_image_path)
        c1 == [c EXCEPT !.reference_image_path = ref, !.validated = TRUE,
                        !.enhanced_prompt = Wrap("fal", c.prompt)]
    IN  IF r = "import_error"
        THEN Raise(c1, Err("configuration", "fal-client not installed", NoCand))
        ELSE IF Truthy(ref) /\ ~CanOpen(ref)
        THEN Raise(c1, Err("io_error", "cannot open reference", NoCand))
        ELSE [c1 EXCEPT !.idx = 1, !.pc = "fal_subscribe"]

(* Lines 1049-1058 and 1071-1080. *)
FalSubscribeTry(c, r) ==
    LET cand == Cand(c.depth, "fal", 1)
        c1 == SentGen([c EXCEPT !.tried = Append(@, cand)], cand,
                      Truthy(c.reference_image_path), c.enhanced_prompt, FALSE, r)
    IN  CASE r = "images_url" -> [c1 EXCEPT !.pc = "fal_download"]
          [] r = "images_inline" -> Raise(c1, Err("malformed", "no url in image", cand))
          [] r = "no_images" -> Raise(c1, Err("unexpected_format", "Unexpected result format", cand))
          [] OTHER -> Raise(c1, Err("api_error", r, cand))

(* Lines 1060-1070. *)
FalFetch(c, r) ==
    LET cand == Cand(c.depth, "fal", 1)
        c1 == Sent(c, "download", cand, r)
    IN  IF r = "ok" THEN WriteAndReturn(c1, "downloaded_bytes")
        ELSE Raise(c1, Err("request_error", r, cand))

-----------------------------------------------------------------------------
(* Thumbnail finder (src/thumbnail_finder.py, class ThumbnailFinder)       *)
(*                                                                         *)
(* `tree` is what thumbnails_dir.rglob('*') yields, in its order; `disk`   *)
(* is the content of index_file; `finder` is the finder object with what   *)
(* its methods did: the operations called so far, the last result or       *)
(* error, and the numbers of directory scans, model.encode calls and       *)
(* writes of index_file.                                                   *)

(* Bounds: operations per behaviour, and the largest top_k. *)
MaxOps == 4
MaxK == 5

None == "None"

image_extensions == {".jpg", ".jpeg", ".png", ".webp"}

(* path.suffix.lower() *)
SuffixLower(suffix) ==
    CASE suffix = ".JPG" -> ".jpg"
      [] suffix = ".PNG" -> ".png"
      [] OTHER -> suffix

(* One path under thumbnails_dir: the directories below the root, the      *)
(* name, whether it is a file, whether Image.open(...).convert succeeds,   *)
(* and the vector model.encode returns for it (<<>>: encode raises).       *)
Item(dirs, stem, suffix, is_file, opens, vec) ==
    [dirs |-> dirs, stem |-> stem, suffix |-> suffix, is_file |-> is_file,
     opens |-> opens, vec |-> vec]

TreeEmpty == <<>>

TreeNoImages ==
    << Item(<<>>, "notes", ".txt", TRUE, FALSE, <<>>),
       Item(<<>>, "finance", "", FALSE, FALSE, <<>>),
       Item(<<"finance">>, "anim", ".gif", TRUE, TRUE, <<5, 0>>) >>

TreeAllBroken ==
    << Item(<<>>, "a", ".png", TRUE, FALSE, <<>>),
       Item(<<"finance">>, "b", ".jpg", TRUE, TRUE, <<>>) >>

TreeSingle == << Item(<<>>, "solo", ".webp", TRUE, TRUE, <<0, 5>>) >>

TreeMixed ==
    << Item(<<>>, "a", ".jpg", TRUE, TRUE, <<5, 0>>),
       Item(<<>>, "tech", "", FALSE, FALSE, <<>>),
       Item(<<"tech">>, "b", ".PNG", TRUE, TRUE, <<6, 8>>),
       Item(<<>>, "c", ".webp", TRUE, FALSE, <<>>),
       Item(<<>>, "readme", ".txt", TRUE, TRUE, <<4, 3>>),
       Item(<<"tech", "old">>, "d", ".jpeg", TRUE, TRUE, <<-3, 4>>),
       Item(<<"finance">>, "e", ".png", FALSE, FALSE, <<>>),
       Item(<<"finance">>, "f", ".png", TRUE, TRUE, <<3, 4>>),
       Item(<<"finance">>, "g", ".jpg", TRUE, TRUE, <<>>) >>

Trees == {TreeEmpty, TreeNoImages, TreeAllBroken, TreeSingle, TreeMixed}

(* Directory names in the order sorted() gives them. *)
CategoryOrder == <<"finance", "old", "tech">>

(* str(img_path), img_path.name *)
PathStr(it) == [dirs |-> it.dirs, name |-> <<it.stem, it.suffix>>]
FileName(it) == <<it.stem, it.suffix>>

(* Category taking the first directory below the root. *)
Category_TopLevel(it) == IF it.dirs = <<>> THEN None ELSE it.dirs[1]

(* Lines 67-71: the parent directory's name, None directly in the root. *)
Category(it) == IF it.dirs = <<>> THEN None ELSE it.dirs[Len(it.dirs)]

Entry(it) == [path |-> PathStr(it), filename |-> FileName(it), category |-> Category(it)]

(* Lines 46-48. *)
ImageFiles(t) ==
    SelectSeq(t, LAMBDA it : it.is_file /\ SuffixLower(it.suffix) \in image_extensions)

(* The index a finder holds.  has_categories: the dict has the key         *)
(* "categories" (the index of line 32 has not).                            *)
Index(thumbnails, embeddings, has_categories, categories) ==
    [thumbnails |-> thumbnails, embeddings |-> embeddings,
     has_categories |-> has_categories, categories |-> categories]

(* Line 32. *)
EmptyIndex == Index(<<>>, <<>>, FALSE, <<>>)

(* sorted(list(categories)) *)
SortedList(categories) == SelectSeq(CategoryOrder, LAMBDA c : c \in categories)

(* The loop of lines 59-84 that gives up at the first file that fails. *)
RECURSIVE IndexLoop_AbortOnError(_, _, _, _, _)
IndexLoop_AbortOnError(files, thumbnails, embeddings, categories, encodes) ==
    IF files = <<>>
    THEN [thumbnails |-> thumbnails, embeddings |-> embeddings,
          categories |-> categories, encodes |-> encodes]
    ELSE LET it == Head(files)
         IN  IF ~it.opens
             THEN [thumbnails |-> thumbnails, embeddings |-> embeddings,
                   categories |-> categories, encodes |-> encodes]
             ELSE IF it.vec = <<>>
             THEN [thumbnails |-> thumbnails, embeddings |-> embeddings,
                   categories |-> categories, encodes |-> encodes + 1]
             ELSE IndexLoop_AbortOnError(Tail(files), Append(thumbnails, Entry(it)),
                            Append(embeddings, it.vec),
                            IF Category(it) = None THEN categories
                            ELSE categories \cup {Category(it)},
                            encodes + 1)

(* Lines 59-84: one pass per image file; a file that fails to open or to   *)
(* embed leaves the lists as they are.                                     *)
RECURSIVE IndexLoop(_, _, _, _, _)
IndexLoop(files, thumbnails, embeddings, categories, encodes) ==
    IF files = <<>>
    THEN [thumbnails |-> thumbnails, embeddings |-> embeddings,
          categories |-> categories, encodes |-> encodes]
    ELSE LET it == Head(files)
         IN  IF ~it.opens
             THEN IndexLoop(Tail(files), thumbnails, embeddings, categories, encodes)
             ELSE IF it.vec = <<>>
             THEN IndexLoop(Tail(files), thumbnails, embeddings, categories, encodes + 1)
             ELSE IndexLoop(Tail(files), Append(thumbnails, Entry(it)),
                            Append(embeddings, it.vec),
                            IF Category(it) = None THEN categories
                            ELSE categories \cup {Category(it)},
                            encodes + 1)

(* json.dump / json.load of the index: None is written as null, strings,   *)
(* numbers and lists as themselves.                                        *)
JNull == [json |-> "null"]
JStr(s) == [json |-> "string", value |-> s]

DumpEntry(e) ==
    [path |-> JStr(e.path), filename |-> JStr(e.filename),
     category |-> IF e.category = None THEN JNull ELSE JStr(e.category)]

LoadEntry(j) ==
    [path |-> j.path.value, filename |-> j.filename.value,
     category |-> IF j.category.json = "null" THEN None ELSE j.category.value]

Dump(index) ==
    [thumbnails |-> [i \in DOMAIN index.thumbnails |-> DumpEntry(index.thumbnails[i])],
     embeddings |-> index.embeddings,
     has_categories |-> index.has_categories,
     categories |-> [i \in DOMAIN index.categories |-> JStr(index.categories[i])]]

Load(text) ==
    Index([i \in DOMAIN text.thumbnails |-> LoadEntry(text.thumbnails[i])],
          text.embeddings,
          text.has_categories,
          [i \in DOMAIN text.categories |-> text.categories[i].value])

(* index_file: whether it exists, and its text. *)
NoFile == [exists |-> FALSE, text |-> Dump(EmptyIndex)]

FileWith(text) == [exists |-> TRUE, text |-> text]

(* Lines 26-32. *)
load_or_create_index(file) ==
    IF file.exists THEN Load(file.text) ELSE EmptyIndex

(* The index a build of tree t produces. *)
BuiltIndex(t) ==
    LET b == IndexLoop(ImageFiles(t), <<>>, <<>>, {}, 0)
    IN  Index(b.thumbnails, b.embeddings, TRUE, SortedList(b.categories))

(* What index_file can hold when a finder is constructed: nothing, or the  *)
(* snapshot an earlier build wrote.                                        *)
Disks == {NoFile} \cup {FileWith(Dump(BuiltIndex(t))) :
                            t \in {TreeAllBroken, TreeSingle, TreeMixed}}

(* find_similar's arguments. *)
Topics == {"stocks", "cooking"}
Povs == {None, "", "beginner"}
TopKs == 1..MaxK

(* Lines 106-108: the query string. *)
Query(topic, pov) ==
    [about |-> topic, perspective |-> IF pov \notin {None, ""} THEN pov ELSE ""]

(* model.encode(query): a fixed vector per query string. *)
EncodeText(q) ==
    CASE q.about = "stocks" /\ q.perspective = "" -> <<5, 0>>
      [] q.about = "stocks" /\ q.perspective = "beginner" -> <<4, 3>>
      [] q.about = "cooking" /\ q.perspective = "" -> <<0, 5>>
      [] q.about = "cooking" /\ q.perspective = "beginner" -> <<-4, 3>>

Dot(a, b) == a[1] * b[1] + a[2] * b[2]

Norm(a) == CHOOSE n \in 0..10 : n * n = Dot(a, a)

(* util.cos_sim, in hundredths. *)
CosSim(a, b) == (100 * Dot(a, b)) \div (Norm(a) * Norm(b))

Range(seq) == {seq[i] : i \in DOMAIN seq}

(* torch.topk(similarities, k): the indices of the k largest values,       *)
(* largest first; equal values come in either order.                       *)
RECURSIVE TopKFrom(_, _, _)
TopKFrom(sims, k, chosen) ==
    IF k = 0 THEN {chosen}
    ELSE LET rest == DOMAIN sims \ Range(chosen)
             best == {i \in rest : \A j \in rest : sims[j] <= sims[i]}
         IN  UNION {TopKFrom(sims, k - 1, Append(chosen, i)) : i \in best}

(* topk that returns the first k indices. *)
TopK_FirstK(sims, k) == {[i \in 1..k |-> i]}

TopK(sims, k) == TopKFrom(sims, k, <<>>)

NoArgs == [topic |-> "", pov |-> None, top_k |-> 0]

(* No finder constructed yet. *)
NoFinder ==
    [ pc |-> "none",
      index_data |-> EmptyIndex,
      ops |-> <<>>,                       \* operations called, in order
      args |-> NoArgs,                    \* arguments of the last find_similar
      result |-> <<>>,                    \* what the last operation returned
      error |-> "none",                   \* what the last operation raised
      scans |-> 0,                        \* rglob calls
      encodes |-> 0,                      \* model.encode calls
      saves |-> 0 ]                       \* writes of index_file

Called(f, op) ==
    [f EXCEPT !.ops = Append(@, op), !.args = NoArgs, !.result = <<>>, !.error = "none"]

(* __init__ that starts from an empty index whatever index_file holds. *)
NewFinder_IgnoreFile(f, file) ==
    [Called(f, "construct") EXCEPT !.pc = "ready", !.index_data = EmptyIndex]

(* Lines 20-32: __init__. *)
NewFinder(f, file) ==
    [Called(f, "construct") EXCEPT !.pc = "ready",
                                   !.index_data = load_or_create_index(file)]

(* index_thumbnails that appends to the lists of the index it holds. *)
index_thumbnails_Accumulate(f, t, file) ==
    LET f1 == [Called(f, "index") EXCEPT !.scans = @ + 1]
        image_files == ImageFiles(t)
        b == IndexLoop(image_files, f.index_data.thumbnails, f.index_data.embeddings, {}, 0)
        index == Index(b.thumbnails, b.embeddings, TRUE, SortedList(b.categories))
    IN  IF image_files = <<>>
        THEN [finder |-> f1, disk |-> file]
        ELSE [finder |-> [f1 EXCEPT !.index_data = index,
                                    !.encodes = @ + b.encodes,
                                    !.saves = @ + 1],
              disk |-> FileWith(Dump(index))]

(* Lines 34-98: the finder and index_file after index_thumbnails(). *)
index_thumbnails(f, t, file) ==
    LET f1 == [Called(f, "index") EXCEPT !.scans = @ + 1]
        image_files == ImageFiles(t)
        b == IndexLoop(image_files, <<>>, <<>>, {}, 0)
        index == Index(b.thumbnails, b.embeddings, TRUE, SortedList(b.categories))
    IN  IF image_files = <<>>
        THEN [finder |-> f1, disk |-> file]
        ELSE [finder |-> [f1 EXCEPT !.index_data = index,
                                    !.encodes = @ + b.encodes,
                                    !.saves = @ + 1],
              disk |-> FileWith(Dump(index))]

(* Lines 125-133: one result per index of top_results. *)
Results(index, sims, order) ==
    [r \in DOMAIN order |->
        [path |-> index.thumbnails[order[r]].path,
         filename |-> index.thumbnails[order[r]].filename,
         similarity_score |-> sims[order[r]],
         rank |-> r]]

(* Line 120: the similarity of the query to every stored embedding. *)
Similarities(index, topic, pov) ==
    [i \in DOMAIN index.embeddings |->
        CosSim(EncodeText(Query(topic, pov)), index.embeddings[i])]

(* find_similar encoding the query before it looks at the index. *)
find_similar_EncodeFirst(f, topic, pov, top_k, order) ==
    LET f1 == [Called(f, "find") EXCEPT
                  !.args = [topic |-> topic, pov |-> pov, top_k |-> top_k],
                  !.encodes = @ + 1]
    IN  IF f.index_data.thumbnails = <<>>
        THEN [f1 EXCEPT !.error = "empty_index"]
        ELSE [f1 EXCEPT !.result = Results(f.index_data,
                                   Similarities(f.index_data, topic, pov), order)]

(* find_similar asking topk for top_k values whatever the index holds. *)
find_similar_NoClamp(f, topic, pov, top_k, order) ==
    LET f1 == [Called(f, "find") EXCEPT
                  !.args = [topic |-> topic, pov |-> pov, top_k |-> top_k]]
        sims == Similarities(f.index_data, topic, pov)
    IN  IF f.index_data.thumbnails = <<>>
        THEN [f1 EXCEPT !.error = "empty_index"]
        ELSE IF top_k > Len(sims)
        THEN [f1 EXCEPT !.encodes = @ + 1, !.error = "topk_out_of_range"]
        ELSE [f1 EXCEPT !.encodes = @ + 1,
                        !.result = Results(f.index_data, sims, order)]

(* Lines 100-135; order is the index sequence torch.topk returned. *)
find_similar(f, topic, pov, top_k, order) ==
    LET f1 == [Called(f, "find") EXCEPT
                  !.args = [topic |-> topic, pov |-> pov, top_k |-> top_k]]
    IN  IF f.index_data.thumbnails = <<>>
        THEN [f1 EXCEPT !.error = "empty_index"]
        ELSE [f1 EXCEPT !.encodes = @ + 1,
                        !.result = Results(f.index_data,
                                   Similarities(f.index_data, topic, pov), order)]

(* The orders torch.topk can return for this call (line 123). *)
TopResults(f, topic, pov, top_k) ==
    LET sims == Similarities(f.index_data, topic, pov)
    IN  TopK(sims, Min(top_k, Len(sims)))

(* No generate() call and no finder in the other specification. *)
IdleCall == NewCall("midjourney", "unset", EmptyPrompt, RefNone)

(* ---------------------------------------------------------------------- *)
(* The web application (src/web_app.py): request handlers running in the  *)
(* threads of one server process over the thumbnails directory, the       *)
(* snapshot file and one generated file.                                  *)
(* ---------------------------------------------------------------------- *)

NumThreads == 2
MaxRequests == 3
MaxRestarts == 1

Threads == 1..NumThreads

(* The routes modelled. *)
Handlers == {"all_thumbnails", "search", "upload", "generate", "view"}

(* index_file between open(..., 'w') and the end of json.dump: no text or *)
(* a prefix of it, which json.load refuses.                               *)
Truncated == FileWith([json |-> "cut"])

(* The file /api/upload-thumbnails saves: thumbnails/tech/new.png. *)
UploadedItem == Item(<<"tech">>, "new", ".png", TRUE, TRUE, <<3, 4>>)

IdleThread ==
    [ pc |-> "idle",
      handler |-> "none",
      topic |-> "",
      seen_uploads |-> {},               \* uploads answered before the request began
      self |-> 0,                         \* the finder index_thumbnails() runs on
      finder |-> 0,                       \* what init_finder() returned
      response |-> "none",
      listed |-> {},                      \* paths in the response
      read |-> "none" ]                   \* what a read of a file found

(* Line 31: finder = None (0); objects are the ThumbnailFinder objects the *)
(* process has constructed.                                                *)
NoWeb ==
    [ finder |-> 0,
      objects |-> <<>>,
      builds |-> 0,                       \* index_thumbnails() calls of init_finder
      threads |-> [t \in Threads |-> IdleThread],
      requests |-> 0,
      restarts |-> 0,
      uploaded |-> {},                    \* paths of the uploads answered with 200
      generated |-> "absent" ]            \* generated_thumbnails/generated_<topic>.png

IndexedPaths(index) == {index.thumbnails[i].path : i \in DOMAIN index.thumbnails}

-----------------------------------------------------------------------------
(* The two calls advance together: the twin takes the step of `call` with  *)
(* the same answer whenever it is at the same place of the same method.    *)
Lockstep(next, twinNext) ==
    /\ call' = next
    /\ twin' = IF twin.pc = call.pc THEN twinNext ELSE twin
    /\ UNCHANGED <<tree, disk, finder, web>>

Init ==
    \E s \in ServiceNames, k \in Credentials, p \in Prompts, ref \in RefValues :
        /\ call = NewCall(s, k, p, ref)
        /\ twin = NewCall(s, k, p, RefNone)
        /\ tree = TreeEmpty
        /\ disk = NoFile
        /\ finder = NoFinder
        /\ web = NoWeb

ConstructGenerator ==
    /\ call.pc = "construct"
    /\ Lockstep(Construct(call, "none"), Construct(twin, "none"))

Generate ==
    /\ call.pc = "generate"
    /\ Lockstep(Dispatch(call, "none"), Dispatch(twin, "none"))

GeminiBegin ==
    /\ call.pc = "gemini_validate"
    /\ Lockstep(GeminiValidate(call, "none"), GeminiValidate(twin, "none"))

GeminiSdk ==
    /\ call.pc = "gemini_sdk"
    /\ \E r \in SdkResponses : Lockstep(GeminiSdkTry(call, r), GeminiSdkTry(twin, r))

GeminiSdkTextFallback ==
    /\ call.pc = "gemini_sdk_fallback"
    /\ \E r \in SdkResponses : Lockstep(GeminiSdkFallback(call, r), GeminiSdkFallback(twin, r))

GeminiRest ==
    /\ call.pc = "gemini_rest"
    /\ \E r \in RestResponses : Lockstep(GeminiRestTry(call, r), GeminiRestTry(twin, r))

FreepikBegin ==
    /\ call.pc = "freepik_validate"
    /\ Lockstep(FreepikValidate(call, "none"), FreepikValidate(twin, "none"))

FreepikRef ==
    /\ call.pc = "freepik_ref"
    /\ \E r \in FreepikRefResponses : Lockstep(FreepikRefTry(call, r), FreepikRefTry(twin, r))

FreepikRefDownload ==
    /\ call.pc = "freepik_ref_download"
    /\ \E r \in DownloadResponses : Lockstep(FreepikRefFetch(call, r), FreepikRefFetch(twin, r))

FreepikText ==
    /\ call.pc = "freepik_text"
    /\ \E r \in FreepikTextResponses : Lockstep(FreepikTextTry(call, r), FreepikTextTry(twin, r))

FreepikTextDownload ==
    /\ call.pc = "freepik_text_download"
    /\ \E r \in DownloadResponses : Lockstep(FreepikTextFetch(call, r), FreepikTextFetch(twin, r))

FreepikPoll ==
    /\ call.pc = "freepik_poll"
    /\ \E r \in FreepikPollResponses : Lockstep(FreepikPollTry(call, r), FreepikPollTry(twin, r))

FreepikPollDownload ==
    /\ call.pc = "freepik_poll_download"
    /\ \E r \in DownloadResponses : Lockstep(FreepikPollFetch(call, r), FreepikPollFetch(twin, r))

ReplicateBegin ==
    /\ call.pc = "replicate_validate"
    /\ Lockstep(ReplicateValidate(call, "none"), ReplicateValidate(twin, "none"))

ReplicateSubmit ==
    /\ call.pc = "replicate_submit"
    /\ \E r \in ReplicateSubmitResponses : Lockstep(ReplicateSubmitTry(call, r), ReplicateSubmitTry(twin, r))

ReplicatePoll ==
    /\ call.pc = "replicate_poll"
    /\ \E r \in ReplicatePollResponses : Lockstep(ReplicatePollTry(call, r), ReplicatePollTry(twin, r))

ReplicateDownload ==
    /\ call.pc = "replicate_download"
    /\ \E r \in DownloadResponses : Lockstep(ReplicateFetch(call, r), ReplicateFetch(twin, r))

DalleBegin ==
    /\ call.pc = "dalle_validate"
    /\ Lockstep(DalleValidate(call, "none"), DalleValidate(twin, "none"))

DalleVision ==
    /\ call.pc = "dalle_vision"
    /\ \E r \in VisionResponses : Lockstep(DalleVisionTry(call, r), DalleVisionTry(twin, r))

DalleGenerate ==
    /\ call.pc = "dalle_generate"
    /\ \E r \in DalleResponses : Lockstep(DalleGenerateTry(call, r), DalleGenerateTry(twin, r))

DalleDownload ==
    /\ call.pc = "dalle_download"
    /\ \E r \in DownloadResponses : Lockstep(DalleFetch(call, r), DalleFetch(twin, r))

FalBegin ==
    /\ call.pc = "fal_validate"
    /\ \E r \in FalImports : Lockstep(FalValidate(call, r), FalValidate(twin, r))

FalSubscribe ==
    /\ call.pc = "fal_subscribe"
    /\ \E r \in FalResponses : Lockstep(FalSubscribeTry(call, r), FalSubscribeTry(twin, r))

FalDownload ==
    /\ call.pc = "fal_download"
    /\ \E r \in DownloadResponses : Lockstep(FalFetch(call, r), FalFetch(twin, r))

Next ==
    \/ ConstructGenerator
    \/ Generate
    \/ GeminiBegin
    \/ GeminiSdk
    \/ GeminiSdkTextFallback
    \/ GeminiRest
    \/ FreepikBegin
    \/ FreepikRef
    \/ FreepikRefDownload
    \/ FreepikText
    \/ FreepikTextDownload
    \/ FreepikPoll
    \/ FreepikPollDownload
    \/ ReplicateBegin
    \/ ReplicateSubmit
    \/ ReplicatePoll
    \/ ReplicateDownload
    \/ DalleBegin
    \/ DalleVision
    \/ DalleGenerate
    \/ DalleDownload
    \/ FalBegin
    \/ FalSubscribe
    \/ FalDownload

Spec == Init /\ [][Next]_vars

(* Every external call returns: a call that can take a step takes it. *)
FairSpec == Spec /\ WF_vars(Next)

-----------------------------------------------------------------------------
(* The finder: a directory tree and an index file as they are found, then  *)
(* up to MaxOps constructions, builds and searches.                        *)
FinderInit ==
    /\ tree \in Trees
    /\ disk \in Disks
    /\ finder = NoFinder
    /\ call = IdleCall
    /\ twin = IdleCall
    /\ web = NoWeb

ConstructFinder ==
    /\ Len(finder.ops) < MaxOps
    /\ finder' = NewFinder(finder, disk)
    /\ UNCHANGED <<call, twin, tree, disk, web>>

IndexThumbnails ==
    /\ finder.pc = "ready"
    /\ Len(finder.ops) < MaxOps
    /\ LET after == index_thumbnails(finder, tree, disk)
       IN  finder' = after.finder /\ disk' = after.disk
    /\ UNCHANGED <<call, twin, tree, web>>

FindSimilar ==
    /\ finder.pc = "ready"
    /\ Len(finder.ops) < MaxOps
    /\ \E topic \in Topics, pov \in Povs, top_k \in TopKs :
          \E order \in TopResults(finder, topic, pov, top_k) :
              finder' = find_similar(finder, topic, pov, top_k, order)
    /\ UNCHANGED <<call, twin, tree, disk, web>>

FinderNext ==
    \/ ConstructFinder
    \/ IndexThumbnails
    \/ FindSimilar

FinderSpec == FinderInit /\ [][FinderNext]_vars

WebInit ==
    /\ tree \in {TreeEmpty, TreeSingle, TreeMixed}
    /\ disk \in {NoFile, FileWith(Dump(BuiltIndex(tree)))}
    /\ web = NoWeb
    /\ finder = NoFinder
    /\ call = IdleCall
    /\ twin = IdleCall

(* A request arrives and a thread of the server enters its handler. *)
BeginRequest(t) ==
    /\ web.threads[t].pc = "idle"
    /\ web.requests < MaxRequests
    /\ \E h \in Handlers, topic \in Topics \cup {""} :
          /\ (h # "search") => topic = ""
          /\ web' = [web EXCEPT
                !.requests = @ + 1,
                !.threads[t] =
                    [IdleThread EXCEPT
                        !.handler = h,
                        !.topic = topic,
                        !.seen_uploads = web.uploaded,
                        !.response = IF h = "search" /\ topic = "" THEN "400" ELSE "none",
                        !.pc = CASE h \in {"all_thumbnails"} -> "init_check"
                                 [] h = "search" -> IF topic = "" THEN "idle" ELSE "init_check"
                                 [] h = "upload" -> "upload"
                                 [] h = "generate" -> "generate"
                                 [] OTHER -> "view"]]
    /\ UNCHANGED <<call, twin, tree, disk, finder>>

(* Line 35: if finder is None. *)
InitFinderCheck(t) ==
    /\ web.threads[t].pc = "init_check"
    /\ web' = [web EXCEPT !.threads[t].pc =
                  IF web.finder = 0 THEN "init_construct" ELSE "init_return"]
    /\ UNCHANGED <<call, twin, tree, disk, finder>>

(* Line 36: finder = ThumbnailFinder("thumbnails"); json.load raises on a *)
(* file that is being written.                                            *)
InitFinderConstruct(t) ==
    /\ web.threads[t].pc = "init_construct"
    /\ IF disk = Truncated
       THEN web' = [web EXCEPT !.threads[t].pc = "idle",
                               !.threads[t].response = "500",
                               !.threads[t].read = "partial"]
       ELSE web' = [web EXCEPT
               !.objects = Append(@, [index_data |-> load_or_create_index(disk),
                                      loaded_empty |-> load_or_create_index(disk).thumbnails = <<>>,
                                      built |-> FALSE]),
               !.finder = Len(web.objects) + 1,
               !.threads[t].pc = "init_count",
               !.threads[t].read = IF disk.exists THEN "complete" ELSE "absent"]
    /\ UNCHANGED <<call, twin, tree, disk, finder>>

(* Line 38: if finder.get_thumbnail_count() == 0; line 40 then calls       *)
(* index_thumbnails() on what the global holds at that moment.             *)
InitFinderCount(t) ==
    /\ web.threads[t].pc = "init_count"
    /\ web' = IF web.objects[web.finder].index_data.thumbnails = <<>>
              THEN [web EXCEPT !.builds = @ + 1,
                               !.threads[t].self = web.finder,
                               !.threads[t].pc = "index_scan"]
              ELSE [web EXCEPT !.threads[t].pc = "init_return"]
    /\ UNCHANGED <<call, twin, tree, disk, finder>>

(* thumbnail_finder.py lines 46-90: the scan, the early return without    *)
(* image files, else the loop and the assignment of index_data.           *)
IndexScan(t) ==
    /\ web.threads[t].pc = "index_scan"
    /\ LET self == web.threads[t].self
       IN  web' = IF ImageFiles(tree) = <<>>
                  THEN [web EXCEPT !.objects[self].built = TRUE,
                                   !.threads[t].pc = "init_return"]
                  ELSE [web EXCEPT !.objects[self].index_data = BuiltIndex(tree),
                                   !.threads[t].pc = "save_open"]
    /\ UNCHANGED <<call, twin, tree, disk, finder>>

(* thumbnail_finder.py line 93: open(self.index_file, 'w') empties the file. *)
SaveOpen(t) ==
    /\ web.threads[t].pc = "save_open"
    /\ disk' = Truncated
    /\ web' = [web EXCEPT !.threads[t].pc = "save_dump"]
    /\ UNCHANGED <<call, twin, tree, finder>>

(* thumbnail_finder.py line 94: json.dump(self.index_data, f) and the end *)
(* of index_thumbnails().                                                 *)
SaveDump(t) ==
    /\ web.threads[t].pc = "save_dump"
    /\ LET self == web.threads[t].self
       IN  /\ disk' = FileWith(Dump(web.objects[self].index_data))
           /\ web' = [web EXCEPT !.objects[self].built = TRUE,
                                 !.threads[t].pc = "init_return"]
    /\ UNCHANGED <<call, twin, tree, finder>>

(* Line 41: return finder. *)
InitFinderReturn(t) ==
    /\ web.threads[t].pc = "init_return"
    /\ web' = [web EXCEPT !.threads[t].finder = web.finder,
                          !.threads[t].pc = "respond"]
    /\ UNCHANGED <<call, twin, tree, disk, finder>>

(* Lines 86-135 and 149-171: the handler answers from the finder it got;  *)
(* find_similar's ValueError on an empty index becomes a 500.             *)
Respond(t) ==
    /\ web.threads[t].pc = "respond"
    /\ LET thr == web.threads[t]
           f == web.objects[thr.finder]
       IN  IF thr.handler = "all_thumbnails"
           THEN web' = [web EXCEPT !.threads[t].pc = "idle",
                                   !.threads[t].response = "200",
                                   !.threads[t].listed = IndexedPaths(f.index_data)]
           ELSE IF f.index_data.thumbnails = <<>>
           THEN web' = [web EXCEPT !.threads[t].pc = "idle",
                                   !.threads[t].response = "500"]
           ELSE \E order \in TopResults(f, thr.topic, None, 3) :
                   web' = [web EXCEPT
                       !.threads[t].pc = "idle",
                       !.threads[t].response = "200",
                       !.threads[t].listed =
                           {f.index_data.thumbnails[order[r]].path : r \in DOMAIN order}]
    /\ UNCHANGED <<call, twin, tree, disk, finder>>

(* Lines 252-318: the file is saved under thumbnails/<category>/ and the  *)
(* handler answers 200 without touching the finder; a file that is not an *)
(* image is answered with 400.                                            *)
Upload(t) ==
    /\ web.threads[t].pc = "upload"
    /\ \E is_image \in BOOLEAN :
          IF is_image /\ PathStr(UploadedItem) \notin web.uploaded
          THEN /\ tree' = Append(tree, UploadedItem)
               /\ web' = [web EXCEPT !.uploaded = @ \cup {PathStr(UploadedItem)},
                                     !.threads[t].pc = "idle",
                                     !.threads[t].response = "200"]
          ELSE /\ tree' = tree
               /\ web' = [web EXCEPT !.threads[t].pc = "idle",
                                     !.threads[t].response = "400"]
    /\ UNCHANGED <<call, twin, disk, finder>>

(* Lines 346-391 with image_generator.py line 288: the provider fails,    *)
(* or open(output_path, "wb") empties the output file.                    *)
GenerateOpen(t) ==
    /\ web.threads[t].pc = "generate"
    /\ \E provider \in {"image", "error"} :
          web' = IF provider = "error"
                 THEN [web EXCEPT !.threads[t].pc = "idle",
                                  !.threads[t].response = "500"]
                 ELSE [web EXCEPT !.generated = "partial",
                                  !.threads[t].pc = "generate_write"]
    /\ UNCHANGED <<call, twin, tree, disk, finder>>

(* image_generator.py line 289: f.write(img_bytes), then the 200 of       *)
(* web_app.py lines 381-385.                                              *)
GenerateWrite(t) ==
    /\ web.threads[t].pc = "generate_write"
    /\ web' = [web EXCEPT !.generated = "complete",
                          !.threads[t].pc = "idle",
                          !.threads[t].response = "200"]
    /\ UNCHANGED <<call, twin, tree, disk, finder>>

(* Lines 430-443: 404 when the file is absent, else its bytes as they are. *)
ServeGenerated(t) ==
    /\ web.threads[t].pc = "view"
    /\ web' = IF web.generated = "absent"
              THEN [web EXCEPT !.threads[t].pc = "idle",
                               !.threads[t].response = "404"]
              ELSE [web EXCEPT !.threads[t].pc = "idle",
                               !.threads[t].response = "200",
                               !.threads[t].read = web.generated]
    /\ UNCHANGED <<call, twin, tree, disk, finder>>

(* The process is stopped between requests and started again: the module  *)
(* is loaded anew (line 31), the files stay.                              *)
Restart ==
    /\ \A t \in Threads : web.threads[t].pc = "idle"
    /\ web.requests > 0
    /\ web.restarts < MaxRestarts
    /\ web' = [NoWeb EXCEPT !.requests = web.requests,
                            !.restarts = web.restarts + 1,
                            !.uploaded = web.uploaded,
                            !.generated = web.generated]
    /\ UNCHANGED <<call, twin, tree, disk, finder>>

WebNext ==
    \/ \E t \in Threads : BeginRequest(t)
    \/ \E t \in Threads : InitFinderCheck(t)
    \/ \E t \in Threads : InitFinderConstruct(t)
    \/ \E t \in Threads : InitFinderCount(t)
    \/ \E t \in Threads : IndexScan(t)
    \/ \E t \in Threads : SaveOpen(t)
    \/ \E t \in Threads : SaveDump(t)
    \/ \E t \in Threads : InitFinderReturn(t)
    \/ \E t \in Threads : Respond(t)
    \/ \E t \in Threads : Upload(t)
    \/ \E t \in Threads : GenerateOpen(t)
    \/ \E t \in Threads : GenerateWrite(t)
    \/ \E t \in Threads : ServeGenerated(t)
    \/ Restart

WebSpec == WebInit /\ [][WebNext]_vars

-----------------------------------------------------------------------------
(* Properties *)

(* The gemini candidate chain of one invocation: three SDK models, then    *)
(* four REST endpoints.                                                    *)
GeminiChain(d) ==
    [i \in 1..(Len(models_to_try) + Len(endpoints_to_try)) |->
        IF i <= Len(models_to_try) THEN Cand(d, "sdk", i)
        ELSE Cand(d, "rest", i - Len(models_to_try))]

(* The reference the caller passed survives validation. *)
ReferenceValidated(c) == Truthy(ValidateReference(c.reference_arg))

RequestsTo(c, cand) == {i \in DOMAIN c.gen_requests : c.gen_requests[i].cand = cand}

FirstRequestTo(c, cand) ==
    c.gen_requests[CHOOSE i \in RequestsTo(c, cand) : \A j \in RequestsTo(c, cand) : i <= j]

NoRepeats(seq) == \A i, j \in DOMAIN seq : i # j => seq[i] # seq[j]

C2_OneRequestPerCandidate ==
    /\ Len(call.gen_requests) = Len(call.tried)
    /\ \A i \in DOMAIN call.gen_requests : call.gen_requests[i].cand = call.tried[i]
    /\ (call.pc = "returned" /\ Len(call.tried) = 3) => Len(call.gen_requests) = 3

(* C3: a call that returned has returned output_path and written the file  *)
(* exactly once; a call that raised, or is still running, has not written. *)
C3_OneWriteOnSuccessNoneOnFailure ==
    /\ call.pc = "returned" =>
          /\ call.result = call.output_path
          /\ call.writes = 1
          /\ call.file \in {"inline_bytes", "downloaded_bytes", "empty_bytes"}
    /\ call.pc # "returned" =>
          /\ call.result = "none"
          /\ call.writes = 0
          /\ call.file = "absent"

C3_Witness ==
    /\ call.pc = "returned"
    /\ call.writes = 1
    /\ call.last_req = "download"
    /\ call.polls > 1

(* References that are not a non-empty string or name no existing file. *)
InvalidRefs == {RefEmpty, RefBlank, RefObject, RefMissing}

(* Errors that come from handling the reference image itself. *)
ReferenceErrors == {"io_error", "freepik_reference_failed"}

(* C4: no network request is issued before the running provider method has *)
(* validated the reference; once validated, an invalid reference counts as *)
(* no reference (no request carries an image) and a failure of the call is *)
(* never one of the errors raised for the reference itself.                *)
C4_InvalidReferenceIsNoReference ==
    /\ (~call.validated /\ call.depth = 0) =>
          (call.last_req = "none" /\ call.gen_requests = <<>>)
    /\ (~call.validated /\ call.depth > 0) => call.pc = "gemini_validate"
    /\ (call.reference_arg \in InvalidRefs) =>
          /\ call.validated => ~Truthy(call.reference_image_path)
          /\ \A i \in DOMAIN call.gen_requests : ~call.gen_requests[i].ref
          /\ call.last_req # "vision"
          /\ call.pc = "raised" =>
                (call.error.kind \notin ReferenceErrors /\ call.error = twin.error)

C4_Witness ==
    /\ call.reference_arg = RefMissing
    /\ call.validated
    /\ call.reference_image_path = RefNone
    /\ call.gen_requests # <<>>

(* What a run shows to the outside and how it ended. *)
Observable(c) ==
    [pc |-> c.pc, gen_requests |-> c.gen_requests, tried |-> c.tried,
     last_req |-> c.last_req, last_cand |-> c.last_cand, nreq2 |-> c.nreq2,
     polls |-> c.polls, sleeps |-> c.sleeps, enhanced_prompt |-> c.enhanced_prompt,
     writes |-> c.writes, file |-> c.file, result |-> c.result, error |-> c.error]

(* C5: a run with an invalid or nonexistent reference path and the run     *)
(* with no reference path, given the same provider answers, are at the     *)
(* same place after every step, have issued the same requests with the     *)
(* same prompts, and end alike.                                            *)
C5_InvalidReferenceRunsLikeNone ==
    call.reference_arg \in InvalidRefs => Observable(call) = Observable(twin)

C5_Witness ==
    /\ call.reference_arg = RefBlank
    /\ call.pc = "returned"
    /\ Len(call.gen_requests) >= 2
    /\ Observable(call) = Observable(twin)

(* The request tells the provider to keep podcast microphones and          *)
(* headphones out: in the prompt text or in negative_prompt.               *)
RequestAvoidsPodcast(q) == TextAvoids(q.prompt) \/ q.neg_avoid

(* C6 as stated: every generation request of every provider carries the    *)
(* caller's prompt inside a style template, and the instruction to avoid   *)
(* podcast microphones and headphones.                                     *)
C6_EveryRequestAvoidsPodcast ==
    \A i \in DOMAIN call.gen_requests :
        /\ call.gen_requests[i].prompt.base = call.caller_prompt.base
        /\ call.gen_requests[i].prompt.layers # <<>>
        /\ RequestAvoidsPodcast(call.gen_requests[i])

(* How the polling of the job that was polled last ended: the error the   *)
(* call raised, or for replicate's first model the error its except kept.  *)
PollOutcome(c) ==
    IF c.pc = "raised" THEN c.error.kind
    ELSE IF c.service = "replicate" /\ c.pc = "replicate_submit" THEN c.last_error.kind
    ELSE "running"

IsNextCandidate(a, b) ==
    \/ b = Cand(a.depth, a.stage, a.idx + 1)
    \/ a = Cand(a.depth, "sdk", Len(models_to_try)) /\ b = Cand(a.depth, "rest", 1)
    \/ a = Cand(0, "rest", Len(endpoints_to_try)) /\ b = Cand(1, "sdk", 1)

(* A step that issues a request after the previous request of a candidate  *)
(* ended in a network-level error.                                         *)
RequestAfterNetError ==
    /\ call.last_req \in {"generate", "poll", "download"}
    /\ call.last_resp \in NetErrors
    /\ call'.nreq2 # call.nreq2

(* C8 as stated: after a network-level error on a request of a candidate,  *)
(* no further request goes to that candidate.                              *)
C8_NetworkErrorEndsCandidate ==
    [][RequestAfterNetError => call'.last_cand # call.last_cand]_vars

(* C8 amended: after a network-level error the next request goes to the    *)
(* next candidate, except that Freepik's polling loop polls the same job   *)
(* again (after one sleep) when a status request or a download failed      *)
(* before the last attempt, and that gemini's SDK loop asks the same model *)
(* once more, text-only, when the request carrying the reference failed.   *)
C8_NetworkErrorEndsCandidateButPollAndSdk ==
    [][RequestAfterNetError =>
          \/ IsNextCandidate(call.last_cand, call'.last_cand)
          \/ /\ call.pc = "freepik_poll"
             /\ call.attempt \in 1..(max_attempts - 1)
             /\ call.sleeps = call.attempt
             /\ call'.last_req = "poll"
             /\ call'.last_cand = call.last_cand
          \/ /\ call.pc = "gemini_sdk_fallback"
             /\ call.last_req = "generate"
             /\ call.gen_requests[Len(call.gen_requests)].ref
             /\ call'.last_cand = call.last_cand
             /\ ~call'.gen_requests[Len(call'.gen_requests)].ref
             /\ Cardinality(RequestsTo(call', call.last_cand)) = 2]_vars

C8_Witness ==
    /\ call.service = "replicate"
    /\ call.last_req = "poll"
    /\ call.last_resp \in NetErrors
    /\ call.polls = 3
    /\ call.pc = "replicate_submit"
    /\ call.idx = 2

(* Successful answers by the shape of the image they carry. *)
InlineAnswers == {"image", "inline", "200_inline", "200_base64", "base64",
                  "completed_base64", "succeeded_inline", "b64_json", "images_inline"}

UrlAnswers == {"url", "200_url", "completed_url", "succeeded_url", "images_url"}

DownloadPcs == {"freepik_ref_download", "freepik_text_download", "freepik_poll_download",
                "replicate_download", "dalle_download", "fal_download"}

SuccessAnswered(c) ==
    c.last_req \in {"generate", "poll"} /\ c.last_resp \in InlineAnswers \cup UrlAnswers

(* Inline bytes are written at once; a URL is fetched next. *)
AnswerAccepted(c) ==
    IF c.last_resp \in InlineAnswers
    THEN c.pc = "returned" /\ c.file = "inline_bytes" /\ c.result = c.output_path
    ELSE c.pc \in DownloadPcs

Downloaded(c) ==
    (c.last_req = "download" /\ c.last_resp = "ok") =>
        (c.pc = "returned" /\ c.file = "downloaded_bytes" /\ c.result = c.output_path)

(* C9 as stated: every provider takes a successful answer in either shape. *)
C9_EveryProviderAcceptsBothShapes ==
    /\ SuccessAnswered(call) => AnswerAccepted(call)
    /\ Downloaded(call)

(* The shapes each provider method reads. *)
AcceptedAnswers(service) ==
    CASE service = "freepik" -> InlineAnswers \cup UrlAnswers
      [] service = "gemini" -> InlineAnswers
      [] OTHER -> UrlAnswers

(* C9 amended: freepik takes both shapes, gemini inline bytes only,        *)
(* replicate, dalle and fal a URL only; an answer in a shape the provider  *)
(* method reads ends with the bytes written at output_path (a URL once its *)
(* download succeeded), an answer in the other shape counts as a failure   *)
(* and writes nothing.                                                     *)
C9_ProviderShapesNormalized ==
    /\ (SuccessAnswered(call) /\ call.last_resp \in AcceptedAnswers(call.service)) =>
          AnswerAccepted(call)
    /\ Downloaded(call)
    /\ (SuccessAnswered(call) /\ call.last_resp \notin AcceptedAnswers(call.service)) =>
          (call.pc \notin DownloadPcs \cup {"returned"} /\ call.writes = 0)

C9_Witness ==
    /\ call.service = "freepik"
    /\ call.pc = "returned"
    /\ call.last_req = "download"
    /\ call.file = "downloaded_bytes"
    /\ call.last_cand.stage = "freepik_ref"

(* C10: in generate_dalle with a valid reference, a failed description     *)
(* step (reading the reference or the vision request) leaves the plain     *)
(* enhanced prompt; exactly one generation request follows, with the       *)
(* prompt the call without reference sends, and the call ends as that      *)
(* call ends.                                                              *)
C10_VisionFailureDegradesToPlain ==
    (call.service = "dalle" /\ call.vision = "failed") =>
        /\ call.reference_arg \in {RefFile, RefBroken}
        /\ call.enhanced_prompt = Wrap("dalle_plain", call.caller_prompt)
        /\ call.pc \in {"dalle_generate", "dalle_download", "returned", "raised"}
        /\ call.pc = "dalle_generate" => call.gen_requests = <<>>
        /\ call.pc # "dalle_generate" =>
              /\ Len(call.gen_requests) = 1
              /\ call.gen_requests[1].prompt =
                    Slice(Wrap("dalle_plain", call.caller_prompt), DallePromptLimit)
              /\ ~call.gen_requests[1].ref
              /\ call.gen_requests = twin.gen_requests
        /\ call.pc \in {"returned", "raised"} =>
              /\ twin.pc = call.pc
              /\ twin.error = call.error
              /\ twin.result = call.result
        /\ call.pc = "raised" => call.error.cand = Cand(0, "dalle", 1)

C10_Witness ==
    /\ call.service = "dalle"
    /\ call.reference_arg = RefFile
    /\ call.vision = "failed"
    /\ call.pc = "returned"

-----------------------------------------------------------------------------
(* Calls that never got past the constructor or the dispatch have touched  *)
(* nothing outside the process.                                            *)
NothingIssued(c) ==
    /\ c.gen_requests = <<>>
    /\ c.last_req = "none"
    /\ c.nreq2 = 0
    /\ c.sleeps = 0
    /\ c.writes = 0
    /\ c.file = "absent"

Ended(c) == c.pc \in {"returned", "raised", "config_error"}

(* C11 as stated: generate() with an empty prompt issues no provider       *)
(* request, writes no file and ends in an invalid-input error, for every   *)
(* provider.                                                               *)
C11_EmptyPromptRejected ==
    call.caller_prompt = EmptyPrompt =>
        /\ NothingIssued(call)
        /\ call.pc \in {"returned", "raised"} =>
              call.pc = "raised" /\ call.error.kind = "invalid_input"

(* C12: when the credential of the selected service is missing (unset or   *)
(* empty) or the service name is unknown, construction ends in a           *)
(* configuration error, no key is stored and nothing is ever issued; a     *)
(* generator that was constructed holds one of the five services and its   *)
(* key, and generate() never raises 'Unsupported service'.                 *)
C12_MissingCredentialNoGenerator ==
    /\ (call.pc # "construct" /\
        (NoCredential(call.credential) \/ Lower(call.service_arg) \notin Services)) =>
          /\ call.pc = "config_error"
          /\ call.error.kind = "config_error"
          /\ call.api_key = "unset"
          /\ NothingIssued(call)
    /\ call.pc \notin {"construct", "config_error"} =>
          /\ call.service \in Services
          /\ call.service = Lower(call.service_arg)
          /\ call.api_key = "key"
    /\ call.error.kind # "unsupported_service"

C12_Witness ==
    /\ call.pc = "config_error"
    /\ call.service = "dalle"
    /\ call.service_arg = "DALLE"
    /\ call.credential = "empty"
    /\ call.error = Err("config_error", "OPENAI_API_KEY", NoCand)

(* The candidate the call attempted last. *)
LastTried(c) == c.tried[Len(c.tried)]

(* C13 as stated: a call that fails after attempting candidates raises an  *)
(* error that carries the error of the candidate attempted last, for every *)
(* provider and on the reference-image paths too.                          *)
C13_ErrorCarriesLastCandidateError ==
    (call.pc = "raised" /\ call.tried # <<>>) =>
        /\ call.error.cand = LastTried(call)
        /\ call.error.cause # "none"

(* The most generation requests a call can issue: gemini with a reference, *)
(* two per SDK model and one per REST endpoint, then the text-only pass.   *)
MaxGenRequests == 2 * Len(models_to_try) + Len(endpoints_to_try)
                  + Len(models_to_try) + Len(endpoints_to_try)

(* C14: a call whose external calls all return ends (returns, raises, or   *)
(* fails in the constructor); until then its generation requests never     *)
(* exceed MaxGenRequests, a job is polled at most max_attempts times, and  *)
(* generate_gemini is entered again at most once, by a pass that carried   *)
(* a reference, the second pass carrying none.                             *)
C14_CallTerminatesRetryOnce ==
    /\ [](/\ Len(call.gen_requests) <= MaxGenRequests
          /\ Len(call.tried) <= 2 * (Len(models_to_try) + Len(endpoints_to_try))
          /\ call.polls <= max_attempts
          /\ call.sleeps <= max_attempts
          /\ call.depth <= 1
          /\ call.depth = 1 =>
                /\ call.service = "gemini"
                /\ ReferenceValidated(call)
                /\ call.reference_image_path = RefNone)
    /\ <>Ended(call)

C14_Witness ==
    /\ call.pc = "raised"
    /\ call.depth = 1
    /\ Len(call.gen_requests) = MaxGenRequests

-----------------------------------------------------------------------------
(* Properties of the finder *)

LastOp(f) == IF f.ops = <<>> THEN "none" ELSE f.ops[Len(f.ops)]

(* This step is a call of the operation op on the finder. *)
StepOf(op) ==
    /\ Len(finder'.ops) = Len(finder.ops) + 1
    /\ LastOp(finder') = op

(* The positions of tree whose files a build indexes: image files that     *)
(* open and embed.                                                         *)
ValidImages(t) ==
    {i \in DOMAIN t : /\ t[i].is_file
                      /\ SuffixLower(t[i].suffix) \in image_extensions
                      /\ t[i].opens
                      /\ t[i].vec # <<>>}

(* C15: a find_similar on an index of n >= 1 entries with top_k = k >= 1   *)
(* returns min(k, n) results, so at most k, whose similarity scores never  *)
(* rise from one result to the next and lie between -1 and 1.              *)
C15_TopKCountAndOrder ==
    (LastOp(finder) = "find" /\ Len(finder.index_data.thumbnails) >= 1) =>
        LET n == Len(finder.index_data.thumbnails)
            k == finder.args.top_k
            results == finder.result
        IN  /\ finder.error = "none"
            /\ Len(results) = Min(k, n)
            /\ Len(results) <= k
            /\ \A i, j \in DOMAIN results :
                  i < j => results[i].similarity_score >= results[j].similarity_score
            /\ \A i \in DOMAIN results :
                  results[i].similarity_score \in -100..100

C15_Witness ==
    /\ LastOp(finder) = "find"
    /\ Len(finder.index_data.thumbnails) = 4
    /\ finder.args.top_k = 5
    /\ Len(finder.result) = 4
    /\ finder.result[1].similarity_score > finder.result[4].similarity_score
    /\ finder.result[2].similarity_score = finder.result[3].similarity_score

(* C16: find_similar on an index without entries raises the empty-index    *)
(* error and returns nothing; it has not called model.encode, scanned the  *)
(* directory or written index_file.                                        *)
C16_EmptyIndexFailsBeforeEncoding ==
    [][(StepOf("find") /\ finder.index_data.thumbnails = <<>>) =>
          /\ finder'.error = "empty_index"
          /\ finder'.result = <<>>
          /\ finder'.encodes = finder.encodes
          /\ finder'.scans = finder.scans
          /\ finder'.saves = finder.saves
          /\ disk' = disk]_vars

C16_Witness ==
    /\ LastOp(finder) = "find"
    /\ finder.index_data.thumbnails = <<>>
    /\ finder.error = "empty_index"
    /\ finder.ops = <<"construct", "find">>

(* The finder was built and has only been searched since. *)
SearchedSinceBuild(f) ==
    \E i \in DOMAIN f.ops :
        /\ f.ops[i] = "index"
        /\ i < Len(f.ops)
        /\ \A j \in (i + 1)..Len(f.ops) : f.ops[j] = "find"

(* C17 as stated: after index_thumbnails() on a tree without a valid       *)
(* image, every later find_similar on the finder raises the empty-index    *)
(* error, whatever the index held before the build.                        *)
C17_BuildFromNothingEmptiesIndex ==
    (SearchedSinceBuild(finder) /\ ValidImages(tree) = {}) =>
        /\ finder.error = "empty_index"
        /\ finder.result = <<>>

(* C18: index_thumbnails() on a tree with image files raises nothing and   *)
(* leaves one entry per image file that opened and embedded, none for the  *)
(* others, with as many embeddings as entries, the i-th embedding being    *)
(* the vector of the i-th entry's file.                                    *)
C18_BuildSkipsFailedFiles ==
    (LastOp(finder) = "index" /\ ImageFiles(tree) # <<>>) =>
        LET thumbnails == finder.index_data.thumbnails
            embeddings == finder.index_data.embeddings
        IN  /\ finder.error = "none"
            /\ Len(thumbnails) = Cardinality(ValidImages(tree))
            /\ Len(embeddings) = Len(thumbnails)
            /\ \A i \in ValidImages(tree) :
                  \E k \in DOMAIN thumbnails :
                      /\ thumbnails[k].path = PathStr(tree[i])
                      /\ embeddings[k] = tree[i].vec
                      /\ \A m \in DOMAIN thumbnails :
                            thumbnails[m].path = PathStr(tree[i]) => m = k
            /\ \A k \in DOMAIN thumbnails :
                  \E i \in ValidImages(tree) : thumbnails[k].path = PathStr(tree[i])

C18_Witness ==
    /\ LastOp(finder) = "index"
    /\ tree = TreeMixed
    /\ Len(finder.index_data.thumbnails) = 4
    /\ Len(finder.index_data.embeddings) = 4
    /\ finder.encodes = 5

(* The number of calls of op so far. *)
Count(f, op) == Cardinality({i \in DOMAIN f.ops : f.ops[i] = op})

(* C19 as stated: every build has written index_file, which holds the      *)
(* index the build left in memory.                                         *)
C19_EveryBuildOverwritesSnapshot ==
    LastOp(finder) = "index" =>
        /\ finder.saves = Count(finder, "index")
        /\ disk = FileWith(Dump(finder.index_data))

(* C20: constructing a finder leaves it with the snapshot of index_file    *)
(* when the file exists and with an index without entries otherwise; the   *)
(* directory is not scanned, nothing is embedded, index_file is not        *)
(* written.                                                                *)
C20_ConstructionOnlyLoads ==
    [][StepOf("construct") =>
          /\ disk.exists => Dump(finder'.index_data) = disk.text
          /\ ~disk.exists =>
                /\ finder'.index_data.thumbnails = <<>>
                /\ finder'.index_data.embeddings = <<>>
          /\ finder'.scans = finder.scans
          /\ finder'.encodes = finder.encodes
          /\ finder'.saves = finder.saves
          /\ finder'.error = "none"
          /\ disk' = disk]_vars

C20_Witness ==
    /\ finder.ops = <<"construct">>
    /\ disk.exists
    /\ Len(finder.index_data.thumbnails) = 1
    /\ finder.scans = 0
    /\ finder.encodes = 0
    /\ finder.saves = 0

(* The place of a directory name in sorted order. *)
CategoryRank(c) == CHOOSE i \in DOMAIN CategoryOrder : CategoryOrder[i] = c

(* C21: every entry of the index has the name of the directory its file    *)
(* lies in as category, None when the file lies in the root; and the       *)
(* category list of a finder that has built is the set of the entries'     *)
(* categories other than None, each once, in sorted order.                 *)
C21_CategoryIsParentDirectory ==
    finder.pc = "ready" =>
        LET thumbnails == finder.index_data.thumbnails
            categories == finder.index_data.categories
        IN  /\ \A k \in DOMAIN thumbnails :
                  LET dirs == thumbnails[k].path.dirs
                  IN  thumbnails[k].category =
                          IF dirs = <<>> THEN None ELSE dirs[Len(dirs)]
            /\ ("index" \in Range(finder.ops)) =>
                  /\ Range(categories) =
                        {thumbnails[k].category : k \in DOMAIN thumbnails} \ {None}
                  /\ \A i, j \in DOMAIN categories :
                        i < j => CategoryRank(categories[i]) < CategoryRank(categories[j])

C21_Witness ==
    /\ LastOp(finder) = "index"
    /\ finder.saves = 1
    /\ finder.index_data.categories = <<"finance", "old", "tech">>
    /\ \E k \in DOMAIN finder.index_data.thumbnails :
          /\ finder.index_data.thumbnails[k].category = "old"
          /\ finder.index_data.thumbnails[k].path.dirs = <<"tech", "old">>
    /\ \E k \in DOMAIN finder.index_data.thumbnails :
          finder.index_data.thumbnails[k].category = None

(* C22: index_thumbnails() called right after index_thumbnails() on the    *)
(* same tree leaves the entries and the embeddings as the first call left  *)
(* them.                                                                   *)
C22_BuildIsIdempotent ==
    [][(StepOf("index") /\ LastOp(finder) = "index") =>
          /\ finder'.index_data.thumbnails = finder.index_data.thumbnails
          /\ finder'.index_data.embeddings = finder.index_data.embeddings
          /\ Len(finder'.index_data.thumbnails) = Len(finder.index_data.thumbnails)
          /\ disk' = disk]_vars

C22_Witness ==
    /\ finder.ops = <<"construct", "index", "index">>
    /\ finder.saves = 2
    /\ finder.encodes = 10
    /\ Len(finder.index_data.thumbnails) = 4

(* C23 as stated: every result of find_similar has a category, that of the *)
(* index entry with the result's path.                                     *)
C23_ResultsCarryCategory ==
    LastOp(finder) = "find" =>
        \A r \in DOMAIN finder.result :
            /\ "category" \in DOMAIN finder.result[r]
            /\ \E k \in DOMAIN finder.index_data.thumbnails :
                  /\ finder.index_data.thumbnails[k].path = finder.result[r].path
                  /\ finder.index_data.thumbnails[k].category = finder.result[r].category

(* C29: the results of a find_similar name pairwise different entries of   *)
(* the index, the i-th result has rank i and the score of its entry, and   *)
(* no entry outside the results scores higher than a result.               *)
C29_ResultsAreTrueTopK ==
    (LastOp(finder) = "find" /\ finder.error = "none") =>
        LET index == finder.index_data
            results == finder.result
            sims == Similarities(index, finder.args.topic, finder.args.pov)
            EntryOf(r) == CHOOSE k \in DOMAIN index.thumbnails :
                              index.thumbnails[k].path = results[r].path
        IN  /\ \A r \in DOMAIN results :
                  /\ \E k \in DOMAIN index.thumbnails :
                        index.thumbnails[k].path = results[r].path
                  /\ results[r].filename = index.thumbnails[EntryOf(r)].filename
                  /\ results[r].similarity_score = sims[EntryOf(r)]
                  /\ results[r].rank = r
            /\ \A r, q \in DOMAIN results : r # q => results[r].path # results[q].path
            /\ \A k \in DOMAIN index.thumbnails :
                  (\A r \in DOMAIN results : results[r].path # index.thumbnails[k].path)
                      => \A r \in DOMAIN results : sims[k] <= results[r].similarity_score

C29_Witness ==
    /\ LastOp(finder) = "find"
    /\ Len(finder.index_data.thumbnails) = 4
    /\ finder.args.top_k = 2
    /\ Len(finder.result) = 2
    /\ finder.result[1].similarity_score = 100
    /\ finder.result[2].similarity_score = 60
    /\ finder.result[2].path.name = <<"f", ".png">>

-----------------------------------------------------------------------------
(* Answers with a success status that hold no image: no parts or parts     *)
(* without inline data (gemini), no image entry, no output, or an image    *)
(* entry whose base64 text is empty.                                       *)
PayloadFreeAnswers(stage) ==
    CASE stage \in {"sdk"} -> {"url", "empty"}
      [] stage = "rest" -> {"200_url", "200_empty"}
      [] stage = "freepik_text" -> {"noimage", "base64_empty", "completed_noimage",
                                    "completed_base64_empty"}
      [] stage = "freepik_ref" -> {"200_noimage", "200_base64_empty"}
      [] stage = "replicate" -> {"succeeded_none"}
      [] stage = "fal" -> {"no_images"}
      [] OTHER -> {}

AnsweredWithoutPayload(c) ==
    /\ c.last_req \in {"generate", "poll"}
    /\ c.last_resp \in PayloadFreeAnswers(c.last_cand.stage)

(* C26 as stated: after a success answer that holds no image the call has  *)
(* not returned and has written nothing.                                   *)
C26_NoPayloadNeverSucceeds ==
    AnsweredWithoutPayload(call) =>
        /\ call.pc # "returned"
        /\ call.writes = 0
        /\ call.file = "absent"

(* C27 as stated: once a REST endpoint of generate_gemini has answered 403 *)
(* with 'API key not valid', or with a 403 that does not name Imagen, the  *)
(* call has raised that error, in the pass of that request: no further     *)
(* endpoint, no text-only pass.                                            *)
C27_Rest403EndsCall ==
    (call.last_cand.stage = "rest" /\ call.last_resp \in {"403_key", "403_other"}) =>
        /\ call.pc = "raised"
        /\ call.error.cause = GeminiRestCause(call.last_resp)
        /\ call.error.cand = call.last_cand
        /\ call.depth = call.last_cand.depth

(* How often the template tpl was applied to a text. *)
TimesApplied(tpl, text) ==
    Cardinality({i \in DOMAIN text.layers : text.layers[i] = tpl})

(* C28 as stated: every request of a gemini call, in the pass with the     *)
(* reference and in the text-only pass after it, carries the caller's      *)
(* prompt with the style template applied once; a text-only request        *)
(* carries the very prompt a call without reference sends.                 *)
C28_TemplateAppliedOnce ==
    call.service = "gemini" =>
        \A i \in DOMAIN call.gen_requests :
            LET req == call.gen_requests[i]
            IN  /\ req.prompt.base = call.caller_prompt.base
                /\ TimesApplied("gemini", req.prompt) = 1
                /\ ~req.ref => req.prompt = Wrap("gemini", call.caller_prompt)

(* C24 as stated: once an upload has been answered with 200, the next      *)
(* /api/all-thumbnails call (one that begins after the answer, in this     *)
(* process or after a restart) answers from an index that holds the        *)
(* uploaded file.                                                          *)
C24_UploadListedByNextCall ==
    \A t \in Threads :
        LET thr == web.threads[t]
        IN  (thr.handler = "all_thumbnails" /\ thr.response = "200") =>
                thr.seen_uploads \subseteq thr.listed

(* C25 as stated: no read of the snapshot by a finder under construction,  *)
(* and no read of the generated file by a viewer, finds a file that is     *)
(* being written.                                                          *)
C25_NoPartialRead ==
    \A t \in Threads : web.threads[t].read # "partial"

(* C30 as stated: a process constructs at most one ThumbnailFinder, runs   *)
(* at most one initial build, and init_finder() hands no handler a finder  *)
(* that was loaded empty and whose build has not ended.                    *)
C30_OneFinderBuiltBeforeUse ==
    /\ Len(web.objects) <= 1
    /\ web.builds <= 1
    /\ \A t \in Threads :
          LET thr == web.threads[t]
          IN  thr.finder # 0 =>
                  (web.objects[thr.finder].loaded_empty => web.objects[thr.finder].built)

====
